---- MODULE Spec2Model ----
(***************************************************************************)
(* Risk scoring and alerting engine of backend/app/scoring:                *)
(*   risk_engine.py  RiskScoringEngine   (signal calculators, aggregator)   *)
(*   confidence.py   ConfidenceScorer                                       *)
(*   alerts.py       AdvancedAlertDetector                                  *)
(*                                                                         *)
(* Scores are fixed-point integers: one score point is U units, so a float *)
(* score s is held as s*U.  round(x, 2) keeps multiples of U/100.  Time is *)
(* counted in whole hours (datetime.utcnow()).                              *)
(***************************************************************************)
EXTENDS Integers, Sequences, FiniteSets, TLC

VARIABLES now, risk_scores, alerts_tbl, next_rs_id, next_alert_id, run, started,
          faulted, probe

vars == <<now, risk_scores, alerts_tbl, next_rs_id, next_alert_id, run, started,
          faulted, probe>>

(* ---------------------------- fixed point ------------------------------ *)

U == 1000

Min(a, b) == IF a < b THEN a ELSE b

Max(a, b) == IF a > b THEN a ELSE b

\* the clamp without its lower bound
Clamp_no_floor(total_score) == Min(total_score, 100 * U)

\* max(0.0, min(total_score, 100.0))
Clamp(total_score) == Max(0, Min(total_score, 100 * U))

\* rounding to one decimal
Round1(x) == ((x + 50) \div 100) * 100

\* round(x, 2) for x >= 0
Round2(x) == ((x + 5) \div 10) * 10

\* dict.get(key, default)
Get(d, key, default) == IF key \in DOMAIN d THEN d[key] ELSE default

RECURSIVE SumSeq(_, _)
SumSeq(s, i) == IF i > Len(s) THEN 0 ELSE s[i] + SumSeq(s, i + 1)

(* ------------------------- news signal --------------------------------- *)

NEWS_DAYS == 7

FALLBACK_LIMIT == 50

\* the windowed find alone, never widened
news_articles_windowed_only(inp) == inp.in_window

\* articles returned by the windowed find, or by the find without date filter
news_articles(inp) ==
    IF inp.in_window > 0 THEN inp.in_window ELSE Min(inp.older, FALLBACK_LIMIT)

\* negative_count of the keyword loop: articles whose text has a negative keyword
news_negative_count(inp) == Min(inp.neg_kw, news_articles(inp))

calculate_news_signal(inp) ==
    LET article_count == news_articles(inp) IN
    IF inp.fail
    THEN [score |-> 0, error |-> TRUE, method |-> "error"]
    ELSE IF article_count = 0
    THEN [score |-> 0, article_count |-> 0, method |-> "none", days_analyzed |-> NEWS_DAYS]
    ELSE IF inp.ml
    THEN LET volume_score == Min(article_count * 2 * U, 40 * U)
             sentiment_score == (U - inp.mean_sentiment) * 30
             clamped_score == Clamp(volume_score + sentiment_score)
         IN [score |-> Round2(clamped_score), article_count |-> article_count,
             method |-> "ml_sentiment", mean_sentiment |-> inp.mean_sentiment,
             days_analyzed |-> NEWS_DAYS]
    ELSE LET negative_count == news_negative_count(inp)
             volume_score == Min((article_count * 50 * U) \div 20, 50 * U)
             negative_score == (negative_count * 50 * U) \div article_count
             clamped_score == Clamp(volume_score + negative_score)
         IN [score |-> Round2(clamped_score), article_count |-> article_count,
             negative_count |-> negative_count, method |-> "keyword",
             days_analyzed |-> NEWS_DAYS]

(* ------------------------- conflict signal ----------------------------- *)

CONFLICT_DAYS == 30

\* event_severity.get(event_type, 5)
base_severity(event_type) ==
    CASE event_type = "Battles" -> 10
      [] event_type = "Violence against civilians" -> 10
      [] event_type = "Explosions/Remote violence" -> 9
      [] event_type = "Riots" -> 7
      [] event_type = "Protests" -> 4
      [] event_type = "Strategic developments" -> 3
      [] OTHER -> 5

\* a multiplier that starts above 10 fatalities, in tenths
severity_multiplier_above_10(fatalities) ==
    IF fatalities > 50 THEN 15
    ELSE IF fatalities > 10 THEN 13
    ELSE 10

\* severity_multiplier, in tenths
severity_multiplier(fatalities) ==
    IF fatalities > 50 THEN 15
    ELSE IF fatalities > 10 THEN 13
    ELSE IF fatalities > 0 THEN 11
    ELSE 10

\* an entry of events stands for n events of one type, fatality count and half
RECURSIVE count_events(_, _, _)
count_events(events, i, half) ==
    IF i > Len(events) THEN 0
    ELSE (IF half = "all" \/ events[i].half = half THEN events[i].n ELSE 0)
         + count_events(events, i + 1, half)

RECURSIVE total_fatalities(_, _)
total_fatalities(events, i) ==
    IF i > Len(events) THEN 0
    ELSE events[i].n * events[i].fatalities + total_fatalities(events, i + 1)

\* severity_sum, in tenths
RECURSIVE severity_sum(_, _)
severity_sum(events, i) ==
    IF i > Len(events) THEN 0
    ELSE events[i].n * base_severity(events[i].event_type)
                     * severity_multiplier(events[i].fatalities)
         + severity_sum(events, i + 1)

RECURSIVE high_casualty_events(_, _)
high_casualty_events(events, i) ==
    IF i > Len(events) THEN 0
    ELSE (IF events[i].fatalities > 50 THEN events[i].n ELSE 0)
         + high_casualty_events(events, i + 1)

\* (len(second_half) - len(first_half)) / len(first_half) * 100, in units of U
escalation_rate(events) ==
    LET first_half == count_events(events, 1, "first")
        second_half == count_events(events, 1, "second")
    IN IF first_half > 0 THEN ((second_half - first_half) * 100 * U) \div first_half
       ELSE 0

\* Event frequency (normalized to 0-40)
frequency_score(event_count) == Min((event_count * 40 * U) \div 15, 40 * U)

calculate_conflict_signal(inp) ==
    LET events == inp.events
        event_count == count_events(events, 1, "all")
    IN
    IF inp.fail
    THEN [score |-> 0, error |-> TRUE]
    ELSE IF event_count = 0
    THEN [score |-> 0, event_count |-> 0, total_fatalities |-> 0,
          days_analyzed |-> CONFLICT_DAYS]
    ELSE LET avg_severity == (severity_sum(events, 1) * U) \div event_count
             severity_score == (avg_severity * 35) \div 150
             fatality_score == Min(total_fatalities(events, 1) * ((20 * U) \div 50), 20 * U)
             escalation_bonus == Min(Max(escalation_rate(events) \div (100 \div 5), 0), 5 * U)
             total_score == frequency_score(event_count) + severity_score + fatality_score
                            + escalation_bonus
         IN [score |-> Clamp(total_score), event_count |-> event_count,
             total_fatalities |-> total_fatalities(events, 1),
             high_casualty_events |-> high_casualty_events(events, 1),
             avg_severity |-> Round2(avg_severity \div 10),
             escalation_rate |-> Round2(escalation_rate(events)),
             days_analyzed |-> CONFLICT_DAYS]

(* ------------------------- economic signal ----------------------------- *)

\* indicator values are in hundredths of a percent point; year is the
\* number of years before the current calendar year

\* values collected for one indicator_code over past_2_years (current year first)
RECURSIVE indicator_values(_, _, _, _)
indicator_values(indicators, code, year, i) ==
    IF i > Len(indicators) THEN << >>
    ELSE (IF indicators[i].indicator_code = code /\ indicators[i].year = year
          THEN <<indicators[i].value>> ELSE << >>)
         \o indicator_values(indicators, code, year, i + 1)

\* the values of the three most recent calendar years
past_3_years(indicators, code) ==
    indicator_values(indicators, code, 0, 1) \o indicator_values(indicators, code, 1, 1)
    \o indicator_values(indicators, code, 2, 1)

past_2_years(indicators, code) ==
    indicator_values(indicators, code, 0, 1) \o indicator_values(indicators, code, 1, 1)

score_gdp_growth(values) ==
    IF values = << >> THEN 50
    ELSE LET latest == values[1] IN
         IF latest < 0 THEN 90
         ELSE IF latest < 200 THEN 65
         ELSE IF latest < 400 THEN 45
         ELSE IF latest < 600 THEN 25
         ELSE IF latest < 800 THEN 15
         ELSE 5

score_inflation(values) ==
    IF values = << >> THEN 50
    ELSE LET latest == values[1] IN
         IF latest > 1000 THEN 85
         ELSE IF latest > 700 THEN 65
         ELSE IF latest > 500 THEN 45
         ELSE IF latest > 300 THEN 25
         ELSE IF latest > 200 THEN 15
         ELSE 5

score_unemployment(values) ==
    IF values = << >> THEN 50
    ELSE LET latest == values[1] IN
         IF latest > 1500 THEN 90
         ELSE IF latest > 1200 THEN 75
         ELSE IF latest > 900 THEN 60
         ELSE IF latest > 700 THEN 45
         ELSE IF latest > 500 THEN 30
         ELSE IF latest > 300 THEN 15
         ELSE 5

indicators_available(indicators) ==
    {code \in {"GDP_GROWTH", "INFLATION", "UNEMPLOYMENT", "FOREIGN_RESERVES", "GOVT_DEBT"} :
        past_2_years(indicators, code) # << >>}

calculate_economic_signal(inp) ==
    IF inp.fail
    THEN [score |-> 0, error |-> TRUE]
    ELSE LET gdp_score == score_gdp_growth(past_2_years(inp.indicators, "GDP_GROWTH"))
             inflation_score == score_inflation(past_2_years(inp.indicators, "INFLATION"))
             unemployment_score ==
                 score_unemployment(past_2_years(inp.indicators, "UNEMPLOYMENT"))
             total_score == (gdp_score * 4 * U + inflation_score * 4 * U
                             + unemployment_score * 2 * U) \div 10
         IN [score |-> Clamp(total_score), gdp_score |-> gdp_score * U,
             inflation_score |-> inflation_score * U,
             unemployment_score |-> unemployment_score * U,
             indicators_available |-> indicators_available(inp.indicators)]

(* ------------------------ government signal ---------------------------- *)

GOVERNMENT_DAYS == 30

calculate_government_signal(inp) ==
    LET report_count == inp.reports IN
    IF inp.fail
    THEN [score |-> 0, reports_analyzed |-> 0, days_analyzed |-> GOVERNMENT_DAYS,
          error |-> TRUE, note |-> "Government signal analysis failed"]
    ELSE IF report_count = 0
    THEN [score |-> 0, reports_analyzed |-> 0, days_analyzed |-> GOVERNMENT_DAYS,
          note |-> "No government data available - signal inactive"]
    ELSE IF inp.ml
    THEN LET stability_score == IF report_count < 5 THEN 30 * U
                                ELSE IF report_count > 30 THEN 60 * U
                                ELSE 20 * U
             sentiment_score == (U - inp.mean_sentiment) * 15
             security_count == Min(inp.security_category, report_count)
             security_score == (security_count * 30 * U) \div report_count
             clamped_score == Clamp(stability_score + sentiment_score + security_score)
         IN [score |-> Round2(clamped_score), reports_analyzed |-> report_count,
             method |-> "ml_sentiment", mean_sentiment |-> inp.mean_sentiment,
             stability_score |-> stability_score, sentiment_score |-> Round2(sentiment_score),
             security_score |-> Round2(security_score), days_analyzed |-> GOVERNMENT_DAYS]
    ELSE LET security_count == Min(inp.security_kw, report_count)
             negative_count == Min(inp.neg_kw, report_count)
             activity_score == Min(report_count * 2 * U, 40 * U)
             security_score == (security_count * 30 * U) \div report_count
             negative_score == (negative_count * 30 * U) \div report_count
             clamped_score == Clamp(activity_score + security_score + negative_score)
         IN [score |-> Round2(clamped_score), reports_analyzed |-> report_count,
             method |-> "keyword", security_mentions |-> security_count,
             negative_mentions |-> negative_count, days_analyzed |-> GOVERNMENT_DAYS]

(* ------------------------- confidence scorer --------------------------- *)

\* floor of the square root, by bisection
RECURSIVE isqrt(_, _, _)
isqrt(n, lo, hi) ==
    IF lo >= hi THEN lo
    ELSE LET mid == (lo + hi + 1) \div 2
         IN IF mid * mid <= n THEN isqrt(n, mid, hi) ELSE isqrt(n, lo, mid - 1)

RECURSIVE sum_sq_dev(_, _, _)
sum_sq_dev(xs, mean, i) ==
    IF i > Len(xs) THEN 0
    ELSE (xs[i] - mean) * (xs[i] - mean) + sum_sq_dev(xs, mean, i + 1)

\* statistics.stdev(scores) in units of U, computed on hundredths of a point
stdev(scores) ==
    LET xs == [i \in 1..Len(scores) |-> scores[i] \div (U \div 100)]
        mean == SumSeq(xs, 1) \div Len(xs)
        variance == sum_sq_dev(xs, mean, 1) \div (Len(xs) - 1)
    IN isqrt(variance, 0, 100 * 100) * (U \div 100)

calculate_source_count_score(news_signal, conflict_signal, economic_signal, government_signal) ==
    LET news_on == Get(news_signal, "article_count", 0) > 5
        conflict_on == Get(conflict_signal, "event_count", 0) > 3
        economic_on == Get(economic_signal, "score", 0) > 0
        government_on == Get(government_signal, "reports_analyzed", 0) > 3
        active_sources == (IF news_on THEN 1 ELSE 0) + (IF conflict_on THEN 1 ELSE 0)
                          + (IF economic_on THEN 1 ELSE 0)
                          + (IF government_on THEN 1 ELSE 0)
        data_volume_score ==
            (IF news_on
             THEN Min((Min(news_signal.article_count, 50) * 25 * U) \div 50, 25 * U)
             ELSE 0)
            + (IF conflict_on
               THEN Min((Min(conflict_signal.event_count, 30) * 25 * U) \div 30, 25 * U)
               ELSE 0)
            + (IF economic_on THEN 25 * U ELSE 0)
            + (IF government_on
               THEN Min((Min(government_signal.reports_analyzed, 20) * 25 * U) \div 20,
                        25 * U)
               ELSE 0)
        source_score == (active_sources * 50 * U) \div 4
        volume_score == Min(data_volume_score, 50 * U)
    IN Min(source_score + volume_score, 100 * U)

calculate_freshness_score(news_signal, conflict_signal, economic_signal, government_signal) ==
    LET news_part == IF Get(news_signal, "article_count", 0) > 0 THEN 30
                     ELSE IF Get(news_signal, "days_analyzed", 7) <= 7 THEN 15 ELSE 0
        conflict_part == IF Get(conflict_signal, "event_count", 0) > 0 THEN 30
                         ELSE IF Get(conflict_signal, "days_analyzed", 30) <= 30 THEN 15
                         ELSE 0
        economic_part == IF Get(economic_signal, "score", 0) > 0 THEN 20 ELSE 0
        government_part == IF Get(government_signal, "reports_analyzed", 0) > 0 THEN 20
                           ELSE IF Get(government_signal, "days_analyzed", 30) <= 30 THEN 10
                           ELSE 0
    IN Min((news_part + conflict_part + economic_part + government_part) * U, 100 * U)

\* a consistency score of 0 when fewer than 2 signals have data
calculate_consistency_score_zero(news_signal, conflict_signal, economic_signal, government_signal) ==
    LET scores == SelectSeq(<<Get(news_signal, "score", 0), Get(conflict_signal, "score", 0),
                              Get(economic_signal, "score", 0),
                              Get(government_signal, "score", 0)>>,
                            LAMBDA x : x > 0)
    IN IF Len(scores) < 2 THEN 0
       ELSE Min(Max(0, 100 * U - (stdev(scores) * 100) \div 30), 100 * U)

calculate_consistency_score(news_signal, conflict_signal, economic_signal, government_signal) ==
    LET scores == SelectSeq(<<Get(news_signal, "score", 0), Get(conflict_signal, "score", 0),
                              Get(economic_signal, "score", 0),
                              Get(government_signal, "score", 0)>>,
                            LAMBDA x : x > 0)
    IN IF Len(scores) < 2 THEN 50 * U
       ELSE Min(Max(0, 100 * U - (stdev(scores) * 100) \div 30), 100 * U)

calculate_historical_validation(historical_scores) ==
    IF Len(historical_scores) < 3 THEN 50 * U
    ELSE LET std_dev == stdev(historical_scores)
             validation_score ==
                 IF std_dev <= 10 * U THEN 100 * U - std_dev * 3
                 ELSE IF std_dev <= 30 * U THEN 70 * U - (std_dev - 10 * U) * 2
                 ELSE Max(0, 30 * U - (std_dev - 30 * U))
         IN Max(0, Min(validation_score, 100 * U))

get_confidence_level(score) ==
    IF score >= 80 * U THEN "very_high"
    ELSE IF score >= 65 * U THEN "high"
    ELSE IF score >= 50 * U THEN "medium"
    ELSE IF score >= 35 * U THEN "low"
    ELSE "very_low"

\* the keys of a signal result whose value is not a number
malformed(signal) == Get(signal, "malformed", {})

\* a comparison or a sum in the try block of calculate_confidence raises:
\* the counts and the scores are always compared, days_analyzed only in the
\* elif of a count that is not positive
confidence_raises(news_signal, conflict_signal, economic_signal, government_signal) ==
    \/ "article_count" \in malformed(news_signal)
    \/ "event_count" \in malformed(conflict_signal)
    \/ "reports_analyzed" \in malformed(government_signal)
    \/ \E signal \in {news_signal, conflict_signal, economic_signal, government_signal} :
          "score" \in malformed(signal)
    \/ ("days_analyzed" \in malformed(news_signal)
        /\ Get(news_signal, "article_count", 0) <= 0)
    \/ ("days_analyzed" \in malformed(conflict_signal)
        /\ Get(conflict_signal, "event_count", 0) <= 0)
    \/ ("days_analyzed" \in malformed(government_signal)
        /\ Get(government_signal, "reports_analyzed", 0) <= 0)

\* a fallback that reports no confidence at all
confidence_error_low ==
    [confidence_score |-> 0, components |-> << >>, confidence_level |-> "very_low",
     error |-> TRUE]

\* the except branch of calculate_confidence
confidence_error ==
    [confidence_score |-> 50 * U, components |-> << >>, confidence_level |-> "medium",
     error |-> TRUE]

calculate_confidence(news_signal, conflict_signal, economic_signal, government_signal, historical_scores) ==
    IF confidence_raises(news_signal, conflict_signal, economic_signal, government_signal)
    THEN confidence_error
    ELSE
    LET source_count_score == calculate_source_count_score(
            news_signal, conflict_signal, economic_signal, government_signal)
        freshness_score == calculate_freshness_score(
            news_signal, conflict_signal, economic_signal, government_signal)
        consistency_score == calculate_consistency_score(
            news_signal, conflict_signal, economic_signal, government_signal)
        historical_score == calculate_historical_validation(historical_scores)
        confidence_score == (source_count_score * 30 + freshness_score * 25
                             + consistency_score * 25 + historical_score * 20) \div 100
    IN [confidence_score |-> Round2(confidence_score),
        components |-> [source_count |-> Round2(source_count_score),
                        freshness |-> Round2(freshness_score),
                        consistency |-> Round2(consistency_score),
                        historical_validation |-> Round2(historical_score)],
        confidence_level |-> get_confidence_level(confidence_score)]

(* --------------------------- persisted state --------------------------- *)

Countries == {"IND", "USA"}


\* engines (callers of calculate_overall_risk)
Procs == {1}

MaxRuns == 3

MaxFaults == 1

None == [none |-> TRUE]

HOURS_7_DAYS == 7 * 24

HOURS_30_DAYS == 30 * 24

\* the lookup without the country filter
first_by_date_desc_any_country(country_code, cutoff, t) ==
    LET rows == {r \in risk_scores : r.date < t /\ r.date >= cutoff}
        latest == {r \in rows : \A o \in rows : o.date <= r.date}
    IN IF rows = {} THEN {None} ELSE latest

\* query(RiskScore).filter(country_code == c, date < t, date >= cutoff)
\*   .order_by(date.desc()).first(): the rows the DB may return first, or None
first_by_date_desc(country_code, cutoff, t) ==
    LET rows == {r \in risk_scores : /\ r.country_code = country_code
                                     /\ r.date < t
                                     /\ r.date >= cutoff}
        latest == {r \in rows : \A o \in rows : o.date <= r.date}
    IN IF rows = {} THEN {None} ELSE latest

\* rows as a list in ascending (date, id) order
RECURSIVE order_by_date(_)
order_by_date(rows) ==
    IF rows = {} THEN << >>
    ELSE LET r == CHOOSE x \in rows :
                    \A o \in rows : x.date < o.date \/ (x.date = o.date /\ x.id <= o.id)
         IN <<r>> \o order_by_date(rows \ {r})

\* query(RiskScore).filter(country_code == c, date >= cutoff).order_by(date).all()
scores_since(country_code, cutoff) ==
    order_by_date({r \in risk_scores : r.country_code = country_code /\ r.date >= cutoff})

(* --------------------------- risk aggregator --------------------------- *)

WEIGHT_NEWS == 20

WEIGHT_CONFLICT == 40

WEIGHT_ECONOMIC == 30

WEIGHT_GOVERNMENT == 10

\* a combination that gives up when a calculator reported an error
weighted_combination_abort(signals) ==
    IF \E k \in DOMAIN signals : "error" \in DOMAIN signals[k] THEN 0
    ELSE (signals.news.score * WEIGHT_NEWS + signals.conflict.score * WEIGHT_CONFLICT
          + signals.economic.score * WEIGHT_ECONOMIC
          + signals.government.score * WEIGHT_GOVERNMENT) \div 100

\* a combination that is averaged with the latest persisted overall_score
weighted_combination_smoothed(signals) ==
    LET combined == (signals.news.score * WEIGHT_NEWS
                     + signals.conflict.score * WEIGHT_CONFLICT
                     + signals.economic.score * WEIGHT_ECONOMIC
                     + signals.government.score * WEIGHT_GOVERNMENT) \div 100
        latest == {r \in risk_scores : \A o \in risk_scores : o.date <= r.date}
    IN IF latest = {} THEN combined
       ELSE (combined + (CHOOSE r \in latest : TRUE).overall_score) \div 2

\* the weighted combination of calculate_overall_risk; weights are in percent
weighted_combination(signals) ==
    (signals.news.score * WEIGHT_NEWS + signals.conflict.score * WEIGHT_CONFLICT
     + signals.economic.score * WEIGHT_ECONOMIC
     + signals.government.score * WEIGHT_GOVERNMENT) \div 100

\* _determine_trend, given the row its query returned
\* a trend that changes at a difference of exactly 10
determine_trend_inclusive(previous, current_score) ==
    IF previous = None THEN "stable"
    ELSE LET diff == current_score - previous.overall_score
         IN IF diff >= 10 * U THEN "increasing"
            ELSE IF diff <= -10 * U THEN "decreasing"
            ELSE "stable"

determine_trend(previous, current_score) ==
    IF previous = None THEN "stable"
    ELSE LET diff == current_score - previous.overall_score
         IN IF diff > 10 * U THEN "increasing"
            ELSE IF diff < -10 * U THEN "decreasing"
            ELSE "stable"

\* _get_historical_scores(country_code, days=30)
get_historical_scores(country_code) ==
    LET scores == scores_since(country_code, now - HOURS_30_DAYS)
    IN [i \in 1..Len(scores) |-> scores[i].overall_score]

get_risk_level(score) ==
    IF score >= 75 * U THEN "critical"
    ELSE IF score >= 60 * U THEN "high"
    ELSE IF score >= 40 * U THEN "medium"
    ELSE IF score >= 20 * U THEN "low"
    ELSE "minimal"

(* --------------------------- alert detector ---------------------------- *)

THRESHOLD_risk_increase == 15

THRESHOLD_sudden_spike == 30

THRESHOLD_sustained_high == 70

THRESHOLD_sustained_duration == 48

THRESHOLD_rapid_escalation == 50

THRESHOLD_rapid_window == 6

DEDUP_HOURS == 24

\* a change taken as 100 percent when the previous score is 0
change_percent_from_zero(current_score, previous_score) ==
    IF previous_score > 0
    THEN ((current_score - previous_score) * 100 * 100) \div previous_score
    ELSE IF current_score > 0 THEN 100 * 100 ELSE 0

\* change_percent, in hundredths of a percent
change_percent(current_score, previous_score) ==
    IF previous_score > 0
    THEN ((current_score - previous_score) * 100 * 100) \div previous_score
    ELSE 0

calculate_severity(pct, alert_type) ==
    IF alert_type = "increase"
    THEN IF pct >= 40 * 100 THEN "critical"
         ELSE IF pct >= 25 * 100 THEN "high"
         ELSE IF pct >= 15 * 100 THEN "medium"
         ELSE "low"
    ELSE "medium"

identify_primary_driver(signals) ==
    LET scores == [News |-> Get(signals.news, "score", 0),
                   Conflict |-> Get(signals.conflict, "score", 0),
                   Economic |-> Get(signals.economic, "score", 0),
                   Government |-> Get(signals.government, "score", 0)]
        order == <<"News", "Conflict", "Economic", "Government">>
        best == CHOOSE i \in 1..4 :
                    /\ \A j \in 1..4 : scores[order[j]] <= scores[order[i]]
                    /\ \A j \in 1..(i - 1) : scores[order[j]] < scores[order[i]]
        max_signal == order[best]
    IN IF \A k \in DOMAIN scores : scores[k] = 0 THEN [signal |-> "Unknown"]
       ELSE IF max_signal = "Conflict"
               /\ Get(signals.conflict, "escalation_rate", 0) > 50 * U
       THEN [signal |-> "Conflict", escalating |-> signals.conflict.escalation_rate]
       ELSE [signal |-> max_signal, score |-> scores[max_signal]]

\* a lookup that returns the oldest row of the window
get_previous_score_oldest(country_code, hours) ==
    LET rows == {r \in risk_scores : /\ r.country_code = country_code
                                     /\ r.date < now
                                     /\ r.date >= now - hours}
        oldest == {r \in rows : \A o \in rows : o.date >= r.date}
    IN IF rows = {} THEN {None} ELSE oldest

\* _get_previous_score(country_code, hours=...) / (country_code, days=7)
get_previous_score(country_code, hours) ==
    first_by_date_desc(country_code, now - hours, now)

\* body of _check_risk_increase, given the row _get_previous_score returned
check_risk_increase(previous, current_score, confidence_score, signals, risk_score_id) ==
    IF previous = None THEN None
    ELSE LET pct == change_percent(current_score, previous.overall_score)
         IN IF pct >= THRESHOLD_risk_increase * 100
            THEN [alert_type |-> "risk_increase",
                  severity |-> calculate_severity(pct, "increase"),
                  risk_score |-> current_score,
                  previous_score |-> previous.overall_score,
                  confidence_score |-> confidence_score,
                  change_percentage |-> pct,
                  evidence |-> [risk_score_id |-> risk_score_id,
                                previous_score_id |-> previous.id]]
            ELSE None

\* body of _check_sudden_spike
check_sudden_spike(previous, current_score, confidence_score, signals, risk_score_id) ==
    IF previous = None THEN None
    ELSE LET pct == change_percent(current_score, previous.overall_score)
         IN IF pct >= THRESHOLD_sudden_spike * 100
            THEN [alert_type |-> "sudden_spike",
                  severity |-> IF pct >= 50 * 100 THEN "critical" ELSE "high",
                  risk_score |-> current_score,
                  previous_score |-> previous.overall_score,
                  confidence_score |-> confidence_score,
                  change_percentage |-> pct,
                  evidence |-> [risk_score_id |-> risk_score_id,
                                previous_score_id |-> previous.id,
                                primary_driver |-> identify_primary_driver(signals)]]
            ELSE None

\* the check with any() in place of all()
check_sustained_high_any(country_code, current_score, confidence_score, signals, risk_score_id) ==
    IF current_score < THRESHOLD_sustained_high * U THEN None
    ELSE LET scores == scores_since(country_code, now - THRESHOLD_sustained_duration)
         IN IF Len(scores) < 2 THEN None
            ELSE IF \E i \in 1..Len(scores) :
                        scores[i].overall_score >= THRESHOLD_sustained_high * U
            THEN [alert_type |-> "sustained_high",
                  severity |-> "critical",
                  risk_score |-> current_score,
                  previous_score |-> scores[1].overall_score,
                  confidence_score |-> confidence_score,
                  change_percentage |-> 0,
                  evidence |-> [risk_score_id |-> risk_score_id,
                                duration_hours |-> now - scores[1].date,
                                score_count |-> Len(scores)]]
            ELSE None

\* body of _check_sustained_high
check_sustained_high(country_code, current_score, confidence_score, signals, risk_score_id) ==
    IF current_score < THRESHOLD_sustained_high * U THEN None
    ELSE LET scores == scores_since(country_code, now - THRESHOLD_sustained_duration)
         IN IF Len(scores) < 2 THEN None
            ELSE IF \A i \in 1..Len(scores) :
                        scores[i].overall_score >= THRESHOLD_sustained_high * U
            THEN [alert_type |-> "sustained_high",
                  severity |-> "critical",
                  risk_score |-> current_score,
                  previous_score |-> scores[1].overall_score,
                  confidence_score |-> confidence_score,
                  change_percentage |-> 0,
                  evidence |-> [risk_score_id |-> risk_score_id,
                                duration_hours |-> now - scores[1].date,
                                score_count |-> Len(scores)]]
            ELSE None

\* body of _check_rapid_escalation
check_rapid_escalation(previous, current_score, confidence_score, signals, risk_score_id) ==
    IF previous = None THEN None
    ELSE LET pct == change_percent(current_score, previous.overall_score)
         IN IF pct >= THRESHOLD_rapid_escalation * 100
            THEN [alert_type |-> "rapid_escalation",
                  severity |-> "critical",
                  risk_score |-> current_score,
                  previous_score |-> previous.overall_score,
                  confidence_score |-> confidence_score,
                  change_percentage |-> pct,
                  evidence |-> [risk_score_id |-> risk_score_id,
                                previous_score_id |-> previous.id,
                                primary_driver |-> identify_primary_driver(signals)]]
            ELSE None

\* a lookup that finds a same-type alert of any age
should_create_alert_no_expiry(country_code, alert_type) ==
    ~ \E a \in alerts_tbl : /\ a.country_code = country_code
                            /\ a.alert_type = alert_type

\* the lookup with the window left out of the cutoff
should_create_alert_no_window(country_code, alert_type) ==
    ~ \E a \in alerts_tbl : /\ a.country_code = country_code
                            /\ a.alert_type = alert_type
                            /\ a.triggered_at >= now

\* the query of _should_create_alert: no same-type alert in the last 24 hours
should_create_alert(country_code, alert_type) ==
    ~ \E a \in alerts_tbl : /\ a.country_code = country_code
                            /\ a.alert_type = alert_type
                            /\ a.triggered_at >= now - DEDUP_HOURS

(* ------------------------------ inputs --------------------------------- *)

\* records the collaborators hold for a country at the time of a run
quiet ==
    [news |-> [in_window |-> 0, older |-> 0, ml |-> TRUE, mean_sentiment |-> 0, neg_kw |-> 0],
     conflict |-> [events |-> << >>],
     economic |-> [indicators |->
        <<[indicator_code |-> "GDP_GROWTH", year |-> 0, value |-> 700],
          [indicator_code |-> "INFLATION", year |-> 1, value |-> 250],
          [indicator_code |-> "UNEMPLOYMENT", year |-> 1, value |-> 400]>>],
     government |-> [reports |-> 0, ml |-> TRUE, mean_sentiment |-> 0,
                     security_category |-> 0, security_kw |-> 0, neg_kw |-> 0]]

tense ==
    [news |-> [in_window |-> 0, older |-> 80, ml |-> FALSE, mean_sentiment |-> 0,
               neg_kw |-> 20],
     conflict |-> [events |->
        <<[event_type |-> "Protests", fatalities |-> 0, half |-> "first", n |-> 4],
          [event_type |-> "Riots", fatalities |-> 2, half |-> "second", n |-> 5]>>],
     economic |-> [indicators |->
        <<[indicator_code |-> "GDP_GROWTH", year |-> 1, value |-> 150],
          [indicator_code |-> "INFLATION", year |-> 0, value |-> 1200],
          [indicator_code |-> "FOREIGN_RESERVES", year |-> 0, value |-> 90000]>>],
     government |-> [reports |-> 6, ml |-> FALSE, mean_sentiment |-> 0,
                     security_category |-> 0, security_kw |-> 3, neg_kw |-> 2]]

severe ==
    [news |-> [in_window |-> 18, older |-> 40, ml |-> TRUE, mean_sentiment |-> -600,
               neg_kw |-> 12],
     conflict |-> [events |->
        <<[event_type |-> "Battles", fatalities |-> 12, half |-> "first", n |-> 6],
          [event_type |-> "Explosions/Remote violence", fatalities |-> 3,
           half |-> "second", n |-> 8]>>],
     economic |-> [indicators |->
        <<[indicator_code |-> "GDP_GROWTH", year |-> 0, value |-> -120],
          [indicator_code |-> "INFLATION", year |-> 0, value |-> 900],
          [indicator_code |-> "UNEMPLOYMENT", year |-> 0, value |-> 1300]>>],
     government |-> [reports |-> 12, ml |-> TRUE, mean_sentiment |-> -400,
                     security_category |-> 6, security_kw |-> 8, neg_kw |-> 5]]

crisis ==
    [news |-> [in_window |-> 30, older |-> 0, ml |-> TRUE, mean_sentiment |-> -800,
               neg_kw |-> 30],
     conflict |-> [events |->
        <<[event_type |-> "Battles", fatalities |-> 60, half |-> "first", n |-> 10],
          [event_type |-> "Violence against civilians", fatalities |-> 75,
           half |-> "second", n |-> 20]>>],
     economic |-> [indicators |->
        <<[indicator_code |-> "GDP_GROWTH", year |-> 0, value |-> -100],
          [indicator_code |-> "INFLATION", year |-> 0, value |-> 1200],
          [indicator_code |-> "UNEMPLOYMENT", year |-> 0, value |-> 1600]>>],
     government |-> [reports |-> 35, ml |-> TRUE, mean_sentiment |-> -1000,
                     security_category |-> 35, security_kw |-> 35, neg_kw |-> 35]]

\* crisis data with no government report in the window: overall 85.2, which
\* is 10 below crisis
blackout ==
    [crisis EXCEPT !.government = [reports |-> 0, ml |-> TRUE, mean_sentiment |-> 0,
                                   security_category |-> 0, security_kw |-> 0,
                                   neg_kw |-> 0]]

Scenarios == {quiet, tense, severe, crisis, blackout}

SignalNames == {"news", "conflict", "economic", "government"}

\* the inputs of a run in which the calculators named in failing raise
with_failures(scenario, failing) ==
    [k \in SignalNames |->
        [f \in DOMAIN scenario[k] \cup {"fail"} |->
            IF f = "fail" THEN k \in failing ELSE scenario[k][f]]]

(* ------------------------- one scoring run ----------------------------- *)

NoSignals == [news |-> None, conflict |-> None, economic |-> None, government |-> None]

\* local state of a RiskScoringEngine.calculate_overall_risk call; faults
\* counts the exceptions met during the call, raised the checks that raised,
\* overlapped records that another call was in progress during this one,
\* inputs the records the calculators read
IdleRun ==
    [pc |-> "idle", country_code |-> "", inputs |-> None, signals |-> NoSignals,
     overall_score |-> 0,
     trend |-> "", confidence |-> None, risk_score_id |-> 0, alerts |-> << >>,
     raised |-> {}, i |-> 1, dedup_error |-> FALSE, created_alerts |-> << >>,
     steps |-> << >>, result |-> None, error |-> "", faults |-> 0, started_at |-> 0,
     overlapped |-> FALSE]

\* GapTicks are the hours from the start of one scoring cycle to the start of
\* the next; inside a call the clock may move on by an hour, once, at
\* the places of TickPoints (after the commit, before the checks read it)
GapTicks == {5, 30}


TickPoints == {"check_risk_increase"}

\* data held for a country when a cycle scores it: IND moves between
\* scenarios, USA is in crisis with or without government reports
InputsOf(country_code) ==
    IF country_code = "IND" THEN {tense, severe, crisis} ELSE {crisis, blackout}

\* an exception may be met while the call has met fewer than MaxFaults
CanFault(p) == run[p].faults < MaxFaults

fault(r) == [r EXCEPT !.faults = @ + 1]

Serialized == \A q \in Procs : run[q].pc = "idle"

\* an order in which the detector runs before the row is committed
step_after_detect_first(pc) ==
    CASE pc = "idle" -> "trend"
      [] pc = "trend" -> "confidence"
      [] pc = "confidence" -> "check_risk_increase"
      [] pc = "persist" -> "load_id"
      [] pc = "load_id" -> "check_risk_increase"
      [] pc = "check_risk_increase" -> "check_sudden_spike"
      [] pc = "check_sudden_spike" -> "check_sustained_high"
      [] pc = "check_sustained_high" -> "check_rapid_escalation"

\* statement order of calculate_overall_risk and detect_all_alerts
step_after(pc) ==
    CASE pc = "idle" -> "trend"
      [] pc = "trend" -> "confidence"
      [] pc = "confidence" -> "persist"
      [] pc = "persist" -> "load_id"
      [] pc = "load_id" -> "check_risk_increase"
      [] pc = "check_risk_increase" -> "check_sudden_spike"
      [] pc = "check_sudden_spike" -> "check_sustained_high"
      [] pc = "check_sustained_high" -> "check_rapid_escalation"

\* a call that has started and neither returned nor raised
Active(q) == run[q].pc \notin {"idle", "returned", "raised"}

\* lines 556-568: the four calculators, then the weighted combination
ScoreSignals(p, country_code, scenario, failing) ==
    /\ run[p].pc = "idle"
    /\ started < MaxRuns
    /\ ~ faulted
    /\ scenario \in InputsOf(country_code)
    /\ Cardinality(failing) <= MaxFaults
    /\ LET inputs == with_failures(scenario, failing)
           signals == [news |-> calculate_news_signal(inputs.news),
                       conflict |-> calculate_conflict_signal(inputs.conflict),
                       economic |-> calculate_economic_signal(inputs.economic),
                       government |-> calculate_government_signal(inputs.government)]
           others == {q \in DOMAIN run \ {p} : Active(q)}
       IN run' = [q \in DOMAIN run |->
                    IF q = p
                    THEN [IdleRun EXCEPT !.pc = step_after("idle"),
                                         !.country_code = country_code,
                                         !.inputs = inputs,
                                         !.signals = signals,
                                         !.overall_score = weighted_combination(signals),
                                         !.steps = <<"signals">>,
                                         !.faults = Cardinality(failing),
                                         !.started_at = now,
                                         !.overlapped = (others # {})]
                    ELSE IF q \in others THEN [run[q] EXCEPT !.overlapped = TRUE]
                    ELSE run[q]]
    /\ started' = started + 1
    /\ faulted' = (failing # {})
    /\ UNCHANGED <<now, risk_scores, alerts_tbl, next_rs_id, next_alert_id, probe>>

\* a call of calculate_overall_risk made while no other call is in progress
CalculateSignals(p, country_code, scenario, failing) ==
    /\ Serialized
    /\ ScoreSignals(p, country_code, scenario, failing)

\* line 571: _determine_trend; a failing query yields "stable"
DetermineTrend(p) ==
    /\ run[p].pc = "trend"
    /\ \E query_fails \in {FALSE} \cup {CanFault(p)} :
       \E previous \in first_by_date_desc(run[p].country_code, now - HOURS_7_DAYS, now) :
          LET r == IF query_fails THEN fault(run[p]) ELSE run[p]
          IN /\ run' = [run EXCEPT ![p] =
                          [r EXCEPT !.pc = step_after("trend"),
                                    !.steps = Append(@, "trend"),
                                    !.trend = IF query_fails THEN "stable"
                                              ELSE determine_trend(previous,
                                                                   r.overall_score)]]
             /\ faulted' = (faulted \/ query_fails)
    /\ UNCHANGED <<now, risk_scores, alerts_tbl, next_rs_id, next_alert_id, started, probe>>

\* lines 574-582: historical scores (empty when the query fails), confidence
CalculateConfidence(p) ==
    /\ run[p].pc = "confidence"
    /\ \E query_fails \in {FALSE} \cup {CanFault(p)} :
          LET r == IF query_fails THEN fault(run[p]) ELSE run[p]
              historical_scores == IF query_fails THEN << >>
                                   ELSE get_historical_scores(r.country_code)
              sig == r.signals
          IN /\ run' = [run EXCEPT ![p] =
                          [r EXCEPT !.pc = step_after("confidence"),
                                    !.steps = Append(@, "confidence"),
                                    !.confidence =
                                        calculate_confidence(sig.news, sig.conflict,
                                            sig.economic, sig.government,
                                            historical_scores)]]
             /\ faulted' = (faulted \/ query_fails)
    /\ UNCHANGED <<now, risk_scores, alerts_tbl, next_rs_id, next_alert_id, started, probe>>

\* the row built at lines 585-603; inputs records what the scores were
\* computed from
new_risk_score(r, id) ==
    [id |-> id,
     inputs |-> r.inputs,
     country_code |-> r.country_code,
     date |-> now,
     overall_score |-> Round2(r.overall_score),
     news_signal_score |-> Round2(r.signals.news.score),
     conflict_signal_score |-> Round2(r.signals.conflict.score),
     economic_signal_score |-> Round2(r.signals.economic.score),
     government_signal_score |-> Round2(r.signals.government.score),
     confidence_score |-> Round2(r.confidence.confidence_score),
     trend |-> r.trend]

\* a commit that reports success and stores nothing
commit_risk_score_lost(row) == risk_scores

\* the effect of db.add(risk_score); db.commit() on the table when it succeeds
commit_risk_score(row) == risk_scores \cup {row}

\* lines 605-606, and lines 645-648 when the commit raises
Persist(p) ==
    /\ run[p].pc = "persist"
    /\ \/ /\ risk_scores' = commit_risk_score(new_risk_score(run[p], next_rs_id))
          /\ next_rs_id' = next_rs_id + 1
          /\ run' = [run EXCEPT ![p].pc = step_after("persist"),
                                ![p].steps = Append(@, "persist"),
                                ![p].risk_score_id = next_rs_id]
          /\ UNCHANGED faulted
       \/ /\ CanFault(p)
          /\ run' = [run EXCEPT ![p] = [fault(@) EXCEPT !.pc = "raised",
                                                         !.error = "commit"]]
          /\ faulted' = TRUE
          /\ UNCHANGED <<risk_scores, next_rs_id>>
    /\ UNCHANGED <<now, alerts_tbl, next_alert_id, started, probe>>

\* line 622: risk_score.id is reloaded after the commit (the session expires
\* attributes on commit); when the reload raises, lines 645-648 run and
\* db.rollback() finds nothing to undo
LoadId(p) ==
    /\ run[p].pc = "load_id"
    /\ \/ /\ run' = [run EXCEPT ![p].pc = step_after("load_id")]
          /\ UNCHANGED faulted
       \/ /\ CanFault(p)
          /\ run' = [run EXCEPT ![p] = [fault(@) EXCEPT !.pc = "raised",
                                                         !.error = "reload"]]
          /\ faulted' = TRUE
    /\ UNCHANGED <<now, risk_scores, alerts_tbl, next_rs_id, next_alert_id, started, probe>>

\* a raising check that takes the candidates of the earlier checks with it
append_candidate_abort(r, check, candidate, raises) ==
    IF raises THEN [fault(r) EXCEPT !.raised = @ \cup {check}, !.alerts = << >>]
    ELSE IF candidate = None THEN r
    ELSE [r EXCEPT !.alerts = Append(@, candidate)]

\* alerts.append(candidate) when the check returned one; a check that raises
\* returns None
append_candidate(r, check, candidate, raises) ==
    IF raises THEN [fault(r) EXCEPT !.raised = @ \cup {check}]
    ELSE IF candidate = None THEN r
    ELSE [r EXCEPT !.alerts = Append(@, candidate)]

\* where detect_all_alerts goes after the four checks
after_checks(r) == IF r.alerts = << >> THEN "return" ELSE "should_create"

\* lines 64-68
CheckRiskIncrease(p) ==
    /\ run[p].pc = "check_risk_increase"
    /\ \E raises \in {FALSE} \cup {CanFault(p)} :
       \E previous \in get_previous_score(run[p].country_code, HOURS_7_DAYS) :
          LET r == run[p]
              candidate == check_risk_increase(previous, r.overall_score,
                               r.confidence.confidence_score, r.signals, r.risk_score_id)
          IN /\ run' = [run EXCEPT ![p] =
                          [append_candidate(r, "risk_increase", candidate, raises)
                              EXCEPT !.pc = step_after("check_risk_increase"),
                                     !.steps = Append(@, "detect")]]
             /\ faulted' = (faulted \/ raises)
    /\ UNCHANGED <<now, risk_scores, alerts_tbl, next_rs_id, next_alert_id, started, probe>>

\* lines 71-75
CheckSuddenSpike(p) ==
    /\ run[p].pc = "check_sudden_spike"
    /\ \E raises \in {FALSE} \cup {CanFault(p)} :
       \E previous \in get_previous_score(run[p].country_code, 24) :
          LET r == run[p]
              candidate == check_sudden_spike(previous, r.overall_score,
                               r.confidence.confidence_score, r.signals, r.risk_score_id)
          IN /\ run' = [run EXCEPT ![p] =
                          [append_candidate(r, "sudden_spike", candidate, raises)
                              EXCEPT !.pc = step_after("check_sudden_spike")]]
             /\ faulted' = (faulted \/ raises)
    /\ UNCHANGED <<now, risk_scores, alerts_tbl, next_rs_id, next_alert_id, started, probe>>

\* lines 78-82
CheckSustainedHigh(p) ==
    /\ run[p].pc = "check_sustained_high"
    /\ \E raises \in {FALSE} \cup {CanFault(p)} :
          LET r == run[p]
              candidate == check_sustained_high(r.country_code, r.overall_score,
                               r.confidence.confidence_score, r.signals, r.risk_score_id)
          IN /\ run' = [run EXCEPT ![p] =
                          [append_candidate(r, "sustained_high", candidate, raises)
                              EXCEPT !.pc = step_after("check_sustained_high")]]
             /\ faulted' = (faulted \/ raises)
    /\ UNCHANGED <<now, risk_scores, alerts_tbl, next_rs_id, next_alert_id, started, probe>>

\* lines 85-89
CheckRapidEscalation(p) ==
    /\ run[p].pc = "check_rapid_escalation"
    /\ \E raises \in {FALSE} \cup {CanFault(p)} :
       \E previous \in get_previous_score(run[p].country_code, THRESHOLD_rapid_window) :
          LET r == run[p]
              candidate == check_rapid_escalation(previous, r.overall_score,
                               r.confidence.confidence_score, r.signals, r.risk_score_id)
              r2 == append_candidate(r, "rapid_escalation", candidate, raises)
          IN /\ run' = [run EXCEPT ![p] = [r2 EXCEPT !.pc = after_checks(r2)]]
             /\ faulted' = (faulted \/ raises)
    /\ UNCHANGED <<now, risk_scores, alerts_tbl, next_rs_id, next_alert_id, started, probe>>

\* where the loop of lines 93-97 goes after candidate i
next_candidate(r) == IF r.i >= Len(r.alerts) THEN "return" ELSE "should_create"

\* a guard that drops the candidate when the lookup raises
ShouldCreateAlert_fail_closed(p) ==
    /\ run[p].pc = "should_create"
    /\ LET r == run[p] IN
       \/ /\ should_create_alert(r.country_code, r.alerts[r.i].alert_type)
          /\ run' = [run EXCEPT ![p].pc = "create", ![p].dedup_error = FALSE]
          /\ UNCHANGED faulted
       \/ /\ ~ should_create_alert(r.country_code, r.alerts[r.i].alert_type)
          /\ run' = [run EXCEPT ![p].pc = next_candidate(r), ![p].i = @ + 1]
          /\ UNCHANGED faulted
       \/ /\ CanFault(p)
          /\ run' = [run EXCEPT ![p] = [fault(@) EXCEPT !.pc = next_candidate(r),
                                                         !.i = @ + 1]]
          /\ faulted' = TRUE
    /\ UNCHANGED <<now, risk_scores, alerts_tbl, next_rs_id, next_alert_id, started, probe>>

\* line 94: _should_create_alert for candidate i; True when the lookup raises
ShouldCreateAlert(p) ==
    /\ run[p].pc = "should_create"
    /\ LET r == run[p] IN
       \/ /\ should_create_alert(r.country_code, r.alerts[r.i].alert_type)
          /\ run' = [run EXCEPT ![p].pc = "create", ![p].dedup_error = FALSE]
          /\ UNCHANGED faulted
       \/ /\ ~ should_create_alert(r.country_code, r.alerts[r.i].alert_type)
          /\ run' = [run EXCEPT ![p].pc = next_candidate(r), ![p].i = @ + 1]
          /\ UNCHANGED faulted
       \/ /\ CanFault(p)
          /\ run' = [run EXCEPT ![p] = [fault(@) EXCEPT !.pc = "create",
                                                         !.dedup_error = TRUE]]
          /\ faulted' = TRUE
    /\ UNCHANGED <<now, risk_scores, alerts_tbl, next_rs_id, next_alert_id, started, probe>>

\* a row that is written as already reviewed
new_alert_reviewed(r, id) ==
    LET alert_data == r.alerts[r.i] IN
    [id |-> id,
     country_code |-> r.country_code,
     alert_type |-> alert_data.alert_type,
     severity |-> alert_data.severity,
     risk_score |-> alert_data.risk_score,
     previous_score |-> alert_data.previous_score,
     confidence_score |-> alert_data.confidence_score,
     change_percentage |-> alert_data.change_percentage,
     status |-> "reviewed",
     evidence |-> alert_data.evidence,
     triggered_at |-> now,
     guard |-> IF r.dedup_error THEN "fail_open" ELSE "checked",
     concurrent |-> r.overlapped]

\* the row built by _create_alert_record; guard records whether the dedup
\* lookup answered or raised, concurrent whether the call overlapped another
new_alert(r, id) ==
    LET alert_data == r.alerts[r.i] IN
    [id |-> id,
     country_code |-> r.country_code,
     alert_type |-> alert_data.alert_type,
     severity |-> alert_data.severity,
     risk_score |-> alert_data.risk_score,
     previous_score |-> alert_data.previous_score,
     confidence_score |-> alert_data.confidence_score,
     change_percentage |-> alert_data.change_percentage,
     status |-> "new",
     evidence |-> alert_data.evidence,
     triggered_at |-> now,
     guard |-> IF r.dedup_error THEN "fail_open" ELSE "checked",
     concurrent |-> r.overlapped]

\* lines 95-97: _create_alert_record commits the row, or rolls back and returns None
CreateAlertRecord(p) ==
    /\ run[p].pc = "create"
    /\ LET r == run[p] IN
       \/ /\ alerts_tbl' = alerts_tbl \cup {new_alert(r, next_alert_id)}
          /\ next_alert_id' = next_alert_id + 1
          /\ run' = [run EXCEPT ![p].pc = next_candidate(r), ![p].i = @ + 1,
                                ![p].created_alerts = Append(@, next_alert_id)]
          /\ UNCHANGED faulted
       \/ /\ CanFault(p)
          /\ run' = [run EXCEPT ![p] = [fault(@) EXCEPT !.pc = next_candidate(r),
                                                         !.i = @ + 1]]
          /\ faulted' = TRUE
          /\ UNCHANGED <<alerts_tbl, next_alert_id>>
    /\ UNCHANGED <<now, risk_scores, next_rs_id, started, probe>>

\* the dict returned at lines 627-643
overall_result(r) ==
    [country_code |-> r.country_code,
     overall_score |-> Round2(r.overall_score),
     confidence_score |-> Round2(r.confidence.confidence_score),
     confidence_level |-> r.confidence.confidence_level,
     risk_level |-> get_risk_level(r.overall_score),
     trend |-> r.trend,
     signals |-> r.signals,
     weights |-> [news_signal |-> WEIGHT_NEWS, conflict_signal |-> WEIGHT_CONFLICT,
                  economic_signal |-> WEIGHT_ECONOMIC,
                  government_signal |-> WEIGHT_GOVERNMENT],
     alerts_triggered |-> Len(r.created_alerts),
     calculated_at |-> now]

Return(p) ==
    /\ run[p].pc = "return"
    /\ run' = [run EXCEPT ![p].pc = "returned", ![p].result = overall_result(run[p])]
    /\ UNCHANGED <<now, risk_scores, alerts_tbl, next_rs_id, next_alert_id, started,
                   faulted, probe>>

\* the caller has the result or the exception; the next cycle starts d hours
\* after this one started
NextCycle(p, d) ==
    /\ run[p].pc \in {"returned", "raised"}
    /\ d \in GapTicks
    /\ run' = [run EXCEPT ![p] = IdleRun]
    /\ now' = run[p].started_at + d
    /\ UNCHANGED <<risk_scores, alerts_tbl, next_rs_id, next_alert_id, started, faulted,
                   probe>>

\* datetime.utcnow() advances while a call is in progress
Tick ==
    /\ \E p \in Procs : /\ run[p].pc \in TickPoints
                        /\ now = run[p].started_at
    /\ now' = now + 1
    /\ UNCHANGED <<risk_scores, alerts_tbl, next_rs_id, next_alert_id, run, started,
                   faulted, probe>>

Init ==
    /\ now = 0
    /\ risk_scores = {}
    /\ alerts_tbl = {}
    /\ next_rs_id = 1
    /\ next_alert_id = 1
    /\ run = [p \in Procs |-> IdleRun]
    /\ started = 0
    /\ faulted = FALSE
    /\ probe = None

Next ==
    \/ \E p \in Procs, c \in Countries, s \in Scenarios, f \in SUBSET SignalNames :
          CalculateSignals(p, c, s, f)
    \/ \E p \in Procs : DetermineTrend(p)
    \/ \E p \in Procs : CalculateConfidence(p)
    \/ \E p \in Procs : Persist(p)
    \/ \E p \in Procs : LoadId(p)
    \/ \E p \in Procs : CheckRiskIncrease(p)
    \/ \E p \in Procs : CheckSuddenSpike(p)
    \/ \E p \in Procs : CheckSustainedHigh(p)
    \/ \E p \in Procs : CheckRapidEscalation(p)
    \/ \E p \in Procs : ShouldCreateAlert(p)
    \/ \E p \in Procs : CreateAlertRecord(p)
    \/ \E p \in Procs : Return(p)
    \/ \E p \in Procs, d \in GapTicks : NextCycle(p, d)
    \/ Tick

Spec == Init /\ [][Next]_vars

(* ------------------- engines running concurrently ---------------------- *)

\* two RiskScoringEngine instances, each with its own session
Engines == {1, 2}

InitConcurrent ==
    /\ now = 0
    /\ risk_scores = {}
    /\ alerts_tbl = {}
    /\ next_rs_id = 1
    /\ next_alert_id = 1
    /\ run = [p \in Engines |-> IdleRun]
    /\ started = 0
    /\ faulted = FALSE
    /\ probe = None

\* data held for a country when concurrent engines score it
ConcurrentInputsOf(country_code) ==
    IF country_code = "IND" THEN {tense, crisis} ELSE {crisis}

\* a call of calculate_overall_risk made whatever the other engine does; in
\* each cycle the engines are numbered in the order in which they start
ConcurrentCalculateSignals(p, country_code, scenario) ==
    /\ \A q \in Engines : q < p => run[q].pc # "idle"
    /\ scenario \in ConcurrentInputsOf(country_code)
    /\ ScoreSignals(p, country_code, scenario, {})

\* the next scoring cycle starts when no call is in progress
ConcurrentCycle(d) ==
    /\ \A q \in Engines : ~ Active(q)
    /\ \E q \in Engines : run[q].pc # "idle"
    /\ run' = [q \in Engines |-> IdleRun]
    /\ now' = now + d
    /\ UNCHANGED <<risk_scores, alerts_tbl, next_rs_id, next_alert_id, started, faulted,
                   probe>>

NextConcurrent ==
    \/ \E p \in Engines, c \in Countries, s \in Scenarios :
          ConcurrentCalculateSignals(p, c, s)
    \/ \E p \in Engines : DetermineTrend(p)
    \/ \E p \in Engines : CalculateConfidence(p)
    \/ \E p \in Engines : Persist(p)
    \/ \E p \in Engines : LoadId(p)
    \/ \E p \in Engines : CheckRiskIncrease(p)
    \/ \E p \in Engines : CheckSuddenSpike(p)
    \/ \E p \in Engines : CheckSustainedHigh(p)
    \/ \E p \in Engines : CheckRapidEscalation(p)
    \/ \E p \in Engines : ShouldCreateAlert(p)
    \/ \E p \in Engines : CreateAlertRecord(p)
    \/ \E p \in Engines : Return(p)
    \/ \E d \in GapTicks : ConcurrentCycle(d)

SpecConcurrent == InitConcurrent /\ [][NextConcurrent]_vars

(* ------------------ the calculators on arbitrary records --------------- *)

MaxCount == 5000

MaxFatalities == 100000

Counts == {0, 1, 4, 19, 31, MaxCount}

Sentiments == {-U, 0, U}

NewsInputs ==
    [fail : BOOLEAN, in_window : Counts, older : {0, 7, MaxCount}, ml : BOOLEAN,
     mean_sentiment : Sentiments, neg_kw : {0, 3, MaxCount}]

EventGroups ==
    [event_type : {"Battles", "Protests", "Strategic developments", "Unknown", ""},
     fatalities : {-MaxFatalities, 0, 5, 11, 51, MaxFatalities},
     half : {"first", "second"},
     n : {1}]
    \cup
    [event_type : {"Battles", "Unknown"}, fatalities : {-3, 0, 10, 60},
     half : {"first", "second"}, n : {15, MaxCount}]
    \cup
    [event_type : {"Battles"}, fatalities : {5}, half : {"first", "second"}, n : {10}]

ConflictInputs ==
    [fail : BOOLEAN, events : {<< >>} \cup {<<g>> : g \in EventGroups}]
    \cup
    [fail : {FALSE},
     events : {<<g, h>> : g \in {e \in EventGroups : e.half = "first"},
                          h \in {e \in EventGroups : e.half = "second" /\ e.n # 15}}]

IndicatorRows ==
    [indicator_code : {"GDP_GROWTH", "INFLATION", "UNEMPLOYMENT"}, year : {0, 1, 2},
     value : {-500, 250, 1200, 100000}]

EconomicInputs ==
    [fail : BOOLEAN,
     indicators : {<< >>} \cup {<<a>> : a \in IndicatorRows}
                  \cup {<<a, b>> : a \in {x \in IndicatorRows : x.value = 1200},
                                   b \in {x \in IndicatorRows : x.year < 2}}]

GovernmentInputs ==
    [fail : BOOLEAN, reports : Counts, ml : BOOLEAN, mean_sentiment : Sentiments,
     security_category : {0, MaxCount}, security_kw : {0, MaxCount}, neg_kw : {0, MaxCount}]

InitSignals ==
    /\ now = 0
    /\ risk_scores = {}
    /\ alerts_tbl = {}
    /\ next_rs_id = 1
    /\ next_alert_id = 1
    /\ run = [p \in Procs |-> IdleRun]
    /\ started = 0
    /\ faulted = FALSE
    /\ probe \in [signal : {"news"}, inputs : NewsInputs]
              \cup [signal : {"conflict"}, inputs : ConflictInputs]
              \cup [signal : {"economic"}, inputs : EconomicInputs]
              \cup [signal : {"government"}, inputs : GovernmentInputs]

Probed(result) ==
    /\ "result" \notin DOMAIN probe
    /\ probe' = [signal |-> probe.signal, inputs |-> probe.inputs, result |-> result]
    /\ UNCHANGED <<now, risk_scores, alerts_tbl, next_rs_id, next_alert_id, run, started,
                   faulted>>

NewsSignal == probe.signal = "news" /\ Probed(calculate_news_signal(probe.inputs))

ConflictSignal == probe.signal = "conflict" /\ Probed(calculate_conflict_signal(probe.inputs))

EconomicSignal == probe.signal = "economic" /\ Probed(calculate_economic_signal(probe.inputs))

GovernmentSignal ==
    probe.signal = "government" /\ Probed(calculate_government_signal(probe.inputs))

NextSignals == NewsSignal \/ ConflictSignal \/ EconomicSignal \/ GovernmentSignal

SpecSignals == InitSignals /\ [][NextSignals]_vars

(* ------------- the confidence scorer on arbitrary records -------------- *)

\* a signal result with a count under count_key; bad is the set of its keys
\* whose value is not a number
counted_result(count_key, score, count, days, bad) ==
    [k \in {"score", count_key, "days_analyzed", "malformed"} |->
        IF k = "score" THEN score
        ELSE IF k = count_key THEN count
        ELSE IF k = "days_analyzed" THEN days
        ELSE bad]

CountedResults(count_key) ==
    {counted_result(count_key, 0, 0, 7, {}), counted_result(count_key, 0, 0, 90, {}),
     counted_result(count_key, 40 * U, 4, 7, {}), counted_result(count_key, 90 * U, 60, 7, {}),
     counted_result(count_key, 150 * U, 60, 7, {}), counted_result(count_key, -5 * U, 2, 7, {}),
     counted_result(count_key, 0, 0, 7, {"score"}),
     counted_result(count_key, 40 * U, 0, 7, {count_key}),
     counted_result(count_key, 0, 0, 7, {"days_analyzed"}),
     counted_result(count_key, 40 * U, 4, 7, {"days_analyzed"})}
    \cup [score : {0}, error : {TRUE}]

EconomicResults ==
    [score : {0}, error : {TRUE}] \cup [score : {0, 64 * U}]
    \cup [score : {0}, malformed : {{"score"}}]

Histories ==
    {<< >>, <<50 * U, 50 * U>>, <<50 * U, 50 * U, 50 * U>>, <<10 * U, 50 * U, 90 * U>>,
     <<0, 100 * U, 0, 100 * U>>}

\* records held for a country when calculate_overall_risk computes the news
\* and the economic signal that it hands to the scorer: articles inside the
\* window, only older articles, or none; indicator rows of the current year
\* or none
EngineRecords ==
    [news : [fail : {FALSE}, in_window : {0, 7}, older : {0, 7}, ml : {FALSE},
             mean_sentiment : {0}, neg_kw : {3}],
     economic : [fail : {FALSE},
                 indicators : {<< >>,
                               <<[indicator_code |-> "INFLATION", year |-> 0,
                                  value |-> 1200]>>,
                               <<[indicator_code |-> "FOREIGN_RESERVES", year |-> 0,
                                  value |-> 90000]>>}]]

PlainResults(count_key) ==
    {counted_result(count_key, 0, 0, 30, {}), counted_result(count_key, 40 * U, 4, 30, {}),
     counted_result(count_key, 90 * U, 60, 30, {})}

\* lines 556-582 of calculate_overall_risk: the signals computed from the
\* records are the arguments of calculate_confidence
ScoredInputs ==
    {[news |-> calculate_news_signal(records.news), conflict |-> conflict_signal,
      economic |-> calculate_economic_signal(records.economic),
      government |-> government_signal, historical_scores |-> << >>,
      history_malformed |-> FALSE, records |-> records] :
        records \in EngineRecords, conflict_signal \in PlainResults("event_count"),
        government_signal \in PlainResults("reports_analyzed")}

ConfidenceInputs ==
    [news : CountedResults("article_count"), conflict : CountedResults("event_count"),
     economic : EconomicResults, government : CountedResults("reports_analyzed"),
     historical_scores : Histories, history_malformed : BOOLEAN]
    \cup ScoredInputs

\* calculate_confidence on a history list that may hold a value that is not a
\* number: statistics.mean raises on it once the list has 3 entries
calculate_confidence_of(inp) ==
    IF inp.history_malformed /\ Len(inp.historical_scores) >= 3
       /\ ~ confidence_raises(inp.news, inp.conflict, inp.economic, inp.government)
    THEN confidence_error
    ELSE calculate_confidence(inp.news, inp.conflict, inp.economic, inp.government,
                              inp.historical_scores)

InitConfidence ==
    /\ now = 0
    /\ risk_scores = {}
    /\ alerts_tbl = {}
    /\ next_rs_id = 1
    /\ next_alert_id = 1
    /\ run = [p \in Procs |-> IdleRun]
    /\ started = 0
    /\ faulted = FALSE
    /\ probe \in [signal : {"confidence"}, inputs : ConfidenceInputs]

ConfidenceProbe == probe.signal = "confidence" /\ Probed(calculate_confidence_of(probe.inputs))

NextConfidence == ConfidenceProbe

SpecConfidence == InitConfidence /\ [][NextConfidence]_vars

(* ------------- the change-based checks on arbitrary rows --------------- *)

\* the four signal results handed to detect_all_alerts
calculated_signals(inputs) ==
    [news |-> calculate_news_signal(inputs.news),
     conflict |-> calculate_conflict_signal(inputs.conflict),
     economic |-> calculate_economic_signal(inputs.economic),
     government |-> calculate_government_signal(inputs.government)]

\* the row _get_previous_score returned (or None), the current score and the
\* signals of the call
CheckInputs ==
    [previous : {None} \cup [id : {1}, overall_score : {0, 10, 10 * U, 50 * U, 70 * U}],
     current_score : {0, 10, 11500, 13 * U, 65 * U, 100 * U},
     signals : {calculated_signals(with_failures(crisis, {})),
                calculated_signals(with_failures(quiet, {"economic"}))}]

InitChecks ==
    /\ now = 0
    /\ risk_scores = {}
    /\ alerts_tbl = {}
    /\ next_rs_id = 1
    /\ next_alert_id = 1
    /\ run = [p \in Procs |-> IdleRun]
    /\ started = 0
    /\ faulted = FALSE
    /\ probe \in [signal : {"risk_increase", "sudden_spike", "rapid_escalation"},
                  inputs : CheckInputs]

RiskIncreaseCheck ==
    /\ probe.signal = "risk_increase"
    /\ Probed(check_risk_increase(probe.inputs.previous, probe.inputs.current_score,
                                  50 * U, probe.inputs.signals, 2))

SuddenSpikeCheck ==
    /\ probe.signal = "sudden_spike"
    /\ Probed(check_sudden_spike(probe.inputs.previous, probe.inputs.current_score,
                                 50 * U, probe.inputs.signals, 2))

RapidEscalationCheck ==
    /\ probe.signal = "rapid_escalation"
    /\ Probed(check_rapid_escalation(probe.inputs.previous, probe.inputs.current_score,
                                     50 * U, probe.inputs.signals, 2))

NextChecks == RiskIncreaseCheck \/ SuddenSpikeCheck \/ RapidEscalationCheck

SpecChecks == InitChecks /\ [][NextChecks]_vars

(* ------------------------------ claims --------------------------------- *)

Abs(x) == IF x < 0 THEN -x ELSE x

SameKind(a, b) ==
    a.id # b.id /\ a.country_code = b.country_code /\ a.alert_type = b.alert_type

EarlierRows(p) ==
    {r \in risk_scores : /\ r.country_code = run[p].country_code
                         /\ r.id # run[p].risk_score_id
                         /\ r.date < now
                         /\ r.date >= now - HOURS_7_DAYS}

\* the prior RiskScore row of call p: the latest row of an earlier call
PriorRows(p) == {r \in EarlierRows(p) : \A o \in EarlierRows(p) : o.date <= r.date}

HasCandidate(p, alert_type) ==
    \E i \in 1..Len(run[p].alerts) : run[p].alerts[i].alert_type = alert_type

\* C2: once the risk_increase check of a call has run without raising, a
\* prior row with score prev > 0 and (c - prev) / prev * 100 >= 15 means the
\* call holds a risk_increase candidate.
C2_RiskIncreaseAgainstPriorRun ==
    \A p \in Procs :
        (run[p].pc = "check_sudden_spike" /\ "risk_increase" \notin run[p].raised)
            => \A prev \in PriorRows(p) :
                  (/\ prev.overall_score > 0
                   /\ (run[p].overall_score - prev.overall_score) * 100
                        >= THRESHOLD_risk_increase * prev.overall_score)
                      => HasCandidate(p, "risk_increase")

\* the rows of the country of call p dated within the trailing 48 hours
TrailingRows(p) ==
    {r \in risk_scores : /\ r.country_code = run[p].country_code
                         /\ r.date >= now - THRESHOLD_sustained_duration}

\* C3: a sustained_high candidate exists only if the current score is >= 70,
\* at least 2 rows of the country are dated in the trailing 48 hours and
\* each of them is >= 70; its severity is critical.
C3_SustainedHighOnlyIfAllHigh ==
    \A p \in Procs :
        (run[p].pc = "check_rapid_escalation" /\ HasCandidate(p, "sustained_high"))
            => /\ run[p].overall_score >= 70 * U
               /\ Cardinality(TrailingRows(p)) >= 2
               /\ \A r \in TrailingRows(p) : r.overall_score >= 70 * U
               /\ \A i \in 1..Len(run[p].alerts) :
                     run[p].alerts[i].alert_type = "sustained_high"
                        => run[p].alerts[i].severity = "critical"

\* the check has produced a sustained_high candidate over at least 2 rows
C3_Witness ==
    \E p \in Procs :
        /\ run[p].pc = "check_rapid_escalation"
        /\ HasCandidate(p, "sustained_high")
        /\ Cardinality(TrailingRows(p)) >= 2

\* C4: a call that has returned a result has its RiskScore row in the table;
\* a call that has not persisted its row ends by raising, without a result.
C4_ResultOnlyIfPersisted ==
    \A p \in Procs :
        /\ run[p].pc = "returned"
             => /\ run[p].result # None
                /\ \E r \in risk_scores :
                      /\ r.id = run[p].risk_score_id
                      /\ r.country_code = run[p].result.country_code
                      /\ r.overall_score = run[p].result.overall_score
        /\ run[p].pc = "raised" => (run[p].result = None /\ run[p].error # "")

C4_Witness ==
    \E p \in Procs : run[p].pc = "returned" /\ run[p].result.overall_score > 0

\* C5: a call that has raised has left no RiskScore row of its own in the
\* table.
C5_RaisedLeavesNoRow ==
    \A p \in Procs :
        run[p].pc = "raised"
            => ~ \E r \in risk_scores : r.id = run[p].risk_score_id

IsPrefix(s, t) == Len(s) <= Len(t) /\ \A i \in 1..Len(s) : s[i] = t[i]

RunOrder == <<"signals", "trend", "confidence", "persist", "detect">>

Detecting(p) ==
    run[p].pc \in {"check_sudden_spike", "check_sustained_high", "check_rapid_escalation",
                   "should_create", "create", "return", "returned"}

\* C6: the steps of a call are taken in the order signals, confidence,
\* persist, detect; while the detector runs the row of the call is in the
\* table, and every candidate and every Alert row names in its evidence the
\* id of a persisted row of the same country, written no later than the alert.
C6_PersistBeforeDetect ==
    /\ \A p \in Procs :
          /\ IsPrefix(run[p].steps, RunOrder)
          /\ Detecting(p) =>
                /\ \E r \in risk_scores : /\ r.id = run[p].risk_score_id
                                          /\ r.country_code = run[p].country_code
                                          /\ r.date <= now
                /\ \A i \in 1..Len(run[p].alerts) :
                      run[p].alerts[i].evidence.risk_score_id = run[p].risk_score_id
    /\ \A a \in alerts_tbl :
          \E r \in risk_scores : /\ r.id = a.evidence.risk_score_id
                                 /\ r.country_code = a.country_code
                                 /\ r.date <= a.triggered_at
                                 /\ r.overall_score = Round2(a.risk_score)

\* a call has gone through all steps and written an Alert row
C6_Witness ==
    \E p \in Procs :
        /\ run[p].pc = "returned"
        /\ run[p].steps = RunOrder
        /\ \E a \in alerts_tbl : a.evidence.risk_score_id = run[p].risk_score_id

SignalErrors(p) == {k \in SignalNames : "error" \in DOMAIN run[p].signals[k]}

SignalWeight(k) ==
    CASE k = "news" -> 20 [] k = "conflict" -> 40 [] k = "economic" -> 30
      [] k = "government" -> 10

RECURSIVE SumOver(_, _)
SumOver(S, f) ==
    IF S = {} THEN 0
    ELSE LET k == CHOOSE x \in S : TRUE IN f[k] + SumOver(S \ {k}, f)

\* the contribution of the calculators that did not fail, times 100
OthersContribution(p) ==
    SumOver(SignalNames \ SignalErrors(p),
            [k \in SignalNames |-> run[p].signals[k].score * SignalWeight(k)])

\* C7: in a call where calculators failed, each failed one reports score 0
\* with an error field, overall_score is the weighted sum of the others, the
\* call does not raise unless something else fails, and the result returned
\* is the persisted row.
C7_SignalFailureContained ==
    \A p \in Procs :
        (run[p].pc # "idle" /\ SignalErrors(p) # {})
            => /\ \A k \in SignalErrors(p) : run[p].signals[k].score = 0
               /\ run[p].overall_score = OthersContribution(p) \div 100
               /\ run[p].faults = Cardinality(SignalErrors(p)) => run[p].pc # "raised"
               /\ run[p].pc = "returned" =>
                     \E r \in risk_scores :
                        /\ r.id = run[p].risk_score_id
                        /\ r.overall_score = Round2(OthersContribution(p) \div 100)

\* a call with one failed calculator returned a score the others made up
C7_Witness ==
    \E p \in Procs :
        /\ run[p].pc = "returned"
        /\ Cardinality(SignalErrors(p)) = 1
        /\ run[p].result.overall_score > 0

\* the latest row of the country of call p dated before now, within hours
LatestWithin(p, hours) ==
    LET rows == {r \in risk_scores : /\ r.country_code = run[p].country_code
                                     /\ r.date < now
                                     /\ r.date >= now - hours}
    IN {r \in rows : \A o \in rows : o.date <= r.date}

Rises(p, hours, pct) ==
    \E prev \in LatestWithin(p, hours) :
        /\ prev.overall_score > 0
        /\ (run[p].overall_score - prev.overall_score) * 100 >= pct * prev.overall_score

\* the alert types whose pattern holds for call p
PatternsHolding(p) ==
    {t \in {"risk_increase"} : Rises(p, 7 * 24, 15)}
    \cup {t \in {"sudden_spike"} : Rises(p, 24, 30)}
    \cup {t \in {"rapid_escalation"} : Rises(p, 6, 50)}
    \cup {t \in {"sustained_high"} :
            /\ run[p].overall_score >= 70 * U
            /\ Cardinality(TrailingRows(p)) >= 2
            /\ \A r \in TrailingRows(p) : r.overall_score >= 70 * U}

\* C8: after the four checks, every pattern that holds and whose check did
\* not raise has its candidate, whichever other checks raised; and when the
\* loop over the candidates is done without any other failure, each
\* candidate has an Alert row of its type in the last 24 hours.
C8_ChecksIndependent ==
    \A p \in Procs :
        /\ run[p].pc \in {"should_create", "create", "return", "returned"}
             => \A t \in PatternsHolding(p) \ run[p].raised : HasCandidate(p, t)
        /\ (run[p].pc \in {"return", "returned"}
            /\ run[p].faults = Cardinality(run[p].raised))
             => \A i \in 1..Len(run[p].alerts) :
                   \E a \in alerts_tbl :
                      /\ a.country_code = run[p].country_code
                      /\ a.alert_type = run[p].alerts[i].alert_type
                      /\ a.triggered_at >= now - DEDUP_HOURS

\* a check raised and the call still wrote the Alert row of another check
C8_Witness ==
    \E p \in Procs :
        /\ run[p].pc = "returned"
        /\ run[p].raised # {}
        /\ \E a \in alerts_tbl :
              /\ a.evidence.risk_score_id = run[p].risk_score_id
              /\ a.alert_type \notin run[p].raised

\* C9: the overall_score of a result is in [0, 100], the weights of the
\* result sum to 1.0, and the weighted sum of the signal scores of the
\* result is within 0.01 of the overall_score.
C9_OverallIsWeightedSum ==
    \A p \in Procs :
        run[p].pc = "returned" =>
            LET res == run[p].result
                manual == res.signals.news.score * res.weights.news_signal
                          + res.signals.conflict.score * res.weights.conflict_signal
                          + res.signals.economic.score * res.weights.economic_signal
                          + res.signals.government.score * res.weights.government_signal
            IN /\ res.overall_score >= 0
               /\ res.overall_score <= 100 * U
               /\ res.weights.news_signal + res.weights.conflict_signal
                  + res.weights.economic_signal + res.weights.government_signal = 100
               /\ res.weights = [news_signal |-> 20, conflict_signal |-> 40,
                                 economic_signal |-> 30, government_signal |-> 10]
               /\ Abs(manual - 100 * res.overall_score) <= 100 * (U \div 100)

\* a result whose overall_score was rounded
C9_Witness ==
    \E p \in Procs :
        /\ run[p].pc = "returned"
        /\ run[p].result.overall_score # run[p].overall_score

\* C10: the score of every calculator result is in [0, 100].
C10_SignalScoreBounds ==
    "result" \in DOMAIN probe
        => (probe.result.score >= 0 /\ probe.result.score <= 100 * U)

\* a conflict result over events whose fatalities sum below zero
C10_Witness ==
    /\ "result" \in DOMAIN probe
    /\ probe.signal = "conflict"
    /\ Get(probe.result, "total_fatalities", 0) < 0
    /\ probe.result.event_count >= MaxCount

\* the scores of the four signal results of a confidence probe that count as
\* data for the consistency component
PositiveScores(inp) ==
    {k \in SignalNames : Get(inp[k], "score", 0) > 0}

UndeterminedCase ==
    /\ "result" \in DOMAIN probe
    /\ probe.signal = "confidence"
    /\ Cardinality(PositiveScores(probe.inputs)) < 2
    /\ Len(probe.inputs.historical_scores) < 3

\* C11 as stated: with fewer than 2 non-zero signal scores and fewer than 3
\* historical scores the result is confidence_score 50, level "medium".
C11_FiftyWhenUndetermined ==
    UndeterminedCase
        => /\ probe.result.confidence_score = 50 * U
           /\ probe.result.confidence_level = "medium"

\* C11 amended: in that case the consistency and the historical_validation
\* components are both 50 and the confidence_score is the weighted sum
\* 0.30 * source_count + 0.25 * freshness + 12.5 + 10, unless the scorer
\* failed and returned its fallback.
C11_ComponentsFiftyWhenUndetermined ==
    (UndeterminedCase /\ "error" \notin DOMAIN probe.result)
        => /\ probe.result.components.consistency = 50 * U
           /\ probe.result.components.historical_validation = 50 * U
           /\ probe.result.confidence_score =
                 Round2((probe.result.components.source_count * 30
                         + probe.result.components.freshness * 25
                         + 50 * U * 45) \div 100)

\* no signal has data and there is no history: the score is 32.5, very_low
C11_Witness ==
    /\ UndeterminedCase
    /\ "error" \notin DOMAIN probe.result
    /\ PositiveScores(probe.inputs) = {}
    /\ probe.inputs.historical_scores = << >>
    /\ probe.result.confidence_level = "very_low"

ConfidenceLevels == {"very_high", "high", "medium", "low", "very_low"}

\* some value read by the scorer is not a number
ScorerFails(inp) ==
    \/ confidence_raises(inp.news, inp.conflict, inp.economic, inp.government)
    \/ (inp.history_malformed /\ Len(inp.historical_scores) >= 3)

\* C12: calculate_confidence returns, for any signal results and history, a
\* confidence_score in [0, 100] and one of the five levels; when a value it
\* reads is malformed it returns 50, "medium" and an error field.
C12_ConfidenceTotal ==
    ("result" \in DOMAIN probe /\ probe.signal = "confidence")
        => /\ probe.result.confidence_score >= 0
           /\ probe.result.confidence_score <= 100 * U
           /\ probe.result.confidence_level \in ConfidenceLevels
           /\ ScorerFails(probe.inputs)
                 => /\ probe.result.confidence_score = 50 * U
                    /\ probe.result.confidence_level = "medium"
                    /\ "error" \in DOMAIN probe.result

\* a malformed history of 3 entries made the scorer return its fallback
C12_Witness ==
    /\ "result" \in DOMAIN probe
    /\ probe.signal = "confidence"
    /\ probe.inputs.history_malformed
    /\ "error" \in DOMAIN probe.result
    /\ ~ confidence_raises(probe.inputs.news, probe.inputs.conflict,
                           probe.inputs.economic, probe.inputs.government)

\* C13: every step keeps each persisted RiskScore and Alert row as it is,
\* adds at most one RiskScore row, writes new Alert rows with status "new";
\* and when a call has returned, each call so far has added exactly one
\* RiskScore row.
C13_AppendOnly ==
    /\ [][/\ risk_scores \subseteq risk_scores'
          /\ alerts_tbl \subseteq alerts_tbl'
          /\ Cardinality(risk_scores' \ risk_scores) <= 1
          /\ \A a \in alerts_tbl' \ alerts_tbl : a.status = "new"]_vars
    /\ [](\A p \in Procs :
            run[p].pc = "returned"
                => /\ Cardinality(risk_scores) = started
                   /\ Cardinality({r \in risk_scores : r.id = run[p].risk_score_id}) = 1)

\* a third call returned after writing an Alert row next to the older rows
C13_Witness ==
    \E p \in Procs :
        /\ run[p].pc = "returned"
        /\ Cardinality(risk_scores) >= 3
        /\ \E a \in alerts_tbl : a.evidence.risk_score_id = run[p].risk_score_id
        /\ \E a \in alerts_tbl : a.evidence.risk_score_id # run[p].risk_score_id

\* the latest row of an earlier call for the country of call p, dated in the
\* preceding 24 hours
PriorRowsInDay(p) ==
    LET rows == {r \in EarlierRows(p) : r.date >= now - 24}
    IN {r \in rows : \A o \in rows : o.date <= r.date}

SpikeAgainst(p, prev) ==
    /\ prev.overall_score > 0
    /\ (run[p].overall_score - prev.overall_score) * 100
         >= THRESHOLD_sudden_spike * prev.overall_score

\* C16: once the sudden_spike check of a call has run without raising, the
\* call holds a sudden_spike candidate exactly when the score of the prior
\* run in the preceding 24 hours is p > 0 and (c - p) / p * 100 >= 30; the
\* candidate is critical from 50 percent on and high below.
C16_SuddenSpikeExactly ==
    \A p \in Procs :
        (run[p].pc = "check_sustained_high" /\ "sudden_spike" \notin run[p].raised)
            => /\ HasCandidate(p, "sudden_spike")
                    <=> \E prev \in PriorRowsInDay(p) : SpikeAgainst(p, prev)
               /\ \A i \in 1..Len(run[p].alerts) :
                     run[p].alerts[i].alert_type = "sudden_spike"
                        => run[p].alerts[i].severity =
                              IF run[p].alerts[i].change_percentage >= 50 * 100
                              THEN "critical" ELSE "high"

AlertTypes == {"risk_increase", "sudden_spike", "sustained_high", "rapid_escalation"}

\* the signal with the highest score, the first of News, Conflict, Economic,
\* Government among equals
HighestSignal(signals) ==
    LET order == <<"news", "conflict", "economic", "government">>
        names == <<"News", "Conflict", "Economic", "Government">>
        best == CHOOSE i \in 1..4 :
                   /\ \A j \in 1..4 : signals[order[j]].score <= signals[order[i]].score
                   /\ \A j \in 1..(i - 1) : signals[order[j]].score < signals[order[i]].score
    IN names[best]

\* C17: every Alert row, of any of the four types, names in its evidence the
\* primary driver: the signal with the highest score of the run, marked as
\* escalating when it is conflict with an escalation_rate above 50.
C17_EveryAlertNamesDriver ==
    \A a \in alerts_tbl :
        /\ a.alert_type \in AlertTypes
        /\ "primary_driver" \in DOMAIN a.evidence
        /\ \A p \in Procs :
              (run[p].pc # "idle" /\ a.evidence.risk_score_id = run[p].risk_score_id)
                 => /\ a.evidence.primary_driver.signal = HighestSignal(run[p].signals)
                    /\ "escalating" \in DOMAIN a.evidence.primary_driver
                         <=> (/\ HighestSignal(run[p].signals) = "Conflict"
                              /\ Get(run[p].signals.conflict, "escalation_rate", 0) > 50 * U)

\* the most recent row of the country of call p dated in the last 7 days,
\* when the call has not yet written its own
RowsBeforeRun(p) ==
    LET rows == {r \in risk_scores : /\ r.country_code = run[p].country_code
                                     /\ r.date < now
                                     /\ r.date >= now - 7 * 24}
    IN {r \in rows : \A o \in rows : o.date <= r.date}

TrendAgainst(current_score, prev) ==
    IF current_score - prev.overall_score > 10 * U THEN "increasing"
    ELSE IF current_score - prev.overall_score < -10 * U THEN "decreasing"
    ELSE "stable"

\* C18: when the trend query of a call has answered, the trend is "stable"
\* without a prior row of the country in the last 7 days, and otherwise
\* compares the current score with the most recent prior row: increasing
\* above +10, decreasing below -10, stable in between and at exactly +-10;
\* the row the call writes stores that trend.
C18_TrendFromPriorRow ==
    \A p \in Procs :
        /\ (run[p].pc = "confidence" /\ run[p].faults = Cardinality(SignalErrors(p)))
              => /\ RowsBeforeRun(p) = {} => run[p].trend = "stable"
                 /\ \A prev \in RowsBeforeRun(p) :
                       run[p].trend = TrendAgainst(run[p].overall_score, prev)
        /\ Detecting(p)
              => \A r \in risk_scores : r.id = run[p].risk_score_id => r.trend = run[p].trend

\* the prior row is exactly 10 above the current score and the trend is stable
C18_Witness ==
    \E p \in Procs :
        /\ run[p].pc = "confidence"
        /\ run[p].faults = 0
        /\ run[p].trend = "stable"
        /\ \E prev \in RowsBeforeRun(p) : prev.overall_score - run[p].overall_score = 10 * U

EconomicProbe ==
    /\ "result" \in DOMAIN probe
    /\ probe.signal = "economic"
    /\ ~ probe.inputs.fail

\* an indicator row of the current or the previous calendar year
HasRecentValue(indicators, code) ==
    \E i \in 1..Len(indicators) :
        indicators[i].indicator_code = code /\ indicators[i].year \in {0, 1}

OnlyInflationAt12 == <<[indicator_code |-> "INFLATION", year |-> 0, value |-> 1200]>>

\* C19: a sub-score of the economic signal is 50 when its indicator has no
\* value in the two most recent calendar years, the score is
\* gdp * 0.4 + inflation * 0.4 + unemployment * 0.2, and with only INFLATION
\* at 12 the sub-scores are 50, 85, 50 and the score is 64.
C19_EconomicDefaults ==
    EconomicProbe
        => LET res == probe.result
               ind == probe.inputs.indicators
           IN /\ ~ HasRecentValue(ind, "GDP_GROWTH") => res.gdp_score = 50 * U
              /\ ~ HasRecentValue(ind, "INFLATION") => res.inflation_score = 50 * U
              /\ ~ HasRecentValue(ind, "UNEMPLOYMENT") => res.unemployment_score = 50 * U
              /\ res.score = (res.gdp_score * 4 + res.inflation_score * 4
                              + res.unemployment_score * 2) \div 10
              /\ ind = OnlyInflationAt12
                    => /\ res.gdp_score = 50 * U
                       /\ res.inflation_score = 85 * U
                       /\ res.unemployment_score = 50 * U
                       /\ res.score = 64 * U

\* the economic signal was computed over INFLATION at 12 alone
C19_Witness ==
    /\ EconomicProbe
    /\ probe.inputs.indicators = OnlyInflationAt12
    /\ probe.result.score = 64 * U

\* 20 Battles events with 5 fatalities each, 10 in each half of the window
TwentyBattles ==
    <<[event_type |-> "Battles", fatalities |-> 5, half |-> "first", n |-> 10],
      [event_type |-> "Battles", fatalities |-> 5, half |-> "second", n |-> 10]>>

TwentyBattlesProbe ==
    /\ "result" \in DOMAIN probe
    /\ probe.signal = "conflict"
    /\ ~ probe.inputs.fail
    /\ probe.inputs.events = TwentyBattles

\* C20 as stated: over these events escalation_rate is 0, the frequency
\* component is 40 and, no multiplier applying, the average severity is 10.
C20_NoMultiplierAtFive ==
    TwentyBattlesProbe
        => /\ probe.result.escalation_rate = 0
           /\ frequency_score(probe.result.event_count) = 40 * U
           /\ probe.result.avg_severity = 10 * U

\* C20 amended: over these events escalation_rate is 0, the frequency
\* component is 40 and every event is weighted by 1.1 (fatalities > 0), so
\* the average severity is 11.
C20_AnyCasualtyMultiplierAtFive ==
    TwentyBattlesProbe
        => /\ probe.result.event_count = 20
           /\ probe.result.total_fatalities = 100
           /\ probe.result.escalation_rate = 0
           /\ frequency_score(probe.result.event_count) = 40 * U
           /\ probe.result.high_casualty_events = 0
           /\ probe.result.avg_severity = 11 * U

\* the conflict signal was computed over the 20 events
C20_Witness ==
    /\ TwentyBattlesProbe
    /\ probe.result.total_fatalities = 100

\* two Alert rows of one country and alert_type less than 24 hours apart
Duplicates(a, b) ==
    /\ SameKind(a, b)
    /\ a.id < b.id
    /\ b.triggered_at - a.triggered_at < DEDUP_HOURS

RowsOf(country_code) == {r \in risk_scores : r.country_code = country_code}

NewsProbe == probe.signal = "news" /\ "result" \in DOMAIN probe /\ ~ probe.inputs.fail

\* the articles the find without date filter returns: at most limit(50)
Widened(inp) == Min(inp.older, FALLBACK_LIMIT)

\* C21: when the windowed query finds no article, the news signal looks at the
\* country's articles without date filter: with none it returns score 0,
\* method "none", article_count 0; otherwise the result counts the widened
\* articles, has a scoring method, days_analyzed 7 and the score that the same
\* number of articles inside the window would get.
C21_NewsFallbackWidening ==
    (NewsProbe /\ probe.inputs.in_window = 0) =>
        LET inp == probe.inputs
            result == probe.result
        IN IF inp.older = 0
           THEN /\ result.score = 0
                /\ result.method = "none"
                /\ result.article_count = 0
           ELSE /\ result.article_count = Widened(inp)
                /\ result.method = (IF inp.ml THEN "ml_sentiment" ELSE "keyword")
                /\ result.days_analyzed = NEWS_DAYS
                /\ result = calculate_news_signal(
                                [inp EXCEPT !.in_window = Widened(inp), !.older = 0])

C21_Witness ==
    /\ NewsProbe
    /\ probe.inputs.in_window = 0
    /\ probe.inputs.older = 7
    /\ probe.result.method = "keyword"
    /\ probe.result.article_count = 7
    /\ probe.result.score > 0

(* ---- C22 ---- *)

\* C22: the result of calculate_news_signal has the fields score,
\* article_count, method and days_analyzed on every path, the error path
\* included.
C22_NewsResultFields ==
    (probe.signal = "news" /\ "result" \in DOMAIN probe) =>
        {"score", "article_count", "method", "days_analyzed"} \subseteq DOMAIN probe.result

(* ---- C23 ---- *)

\* a confidence probe on signals computed from records, scored without error
ScoredProbe ==
    /\ probe.signal = "confidence"
    /\ "result" \in DOMAIN probe
    /\ "records" \in DOMAIN probe.inputs
    /\ "error" \notin DOMAIN probe.result

\* min(count / full * 25, 25) for a source that cleared its threshold
VolumeCredit(active, count, full) ==
    IF active THEN Min((Min(count, full) * 25 * U) \div full, 25 * U) ELSE 0

\* C23: the source_count sub-score counts news with more than 5 articles,
\* conflict with more than 3 events, government with more than 3 reports and
\* the economic signal only when some indicator data exists; an economic
\* signal computed with no indicator data is not active and earns no volume
\* credit.
C23_ActiveSourcesClearedThreshold ==
    ScoredProbe =>
        LET inp == probe.inputs
            news_on == inp.news.article_count > 5
            conflict_on == inp.conflict.event_count > 3
            economic_on == inp.records.economic.indicators # << >>
            government_on == inp.government.reports_analyzed > 3
            active_sources == Cardinality({k \in SignalNames :
                                  \/ k = "news" /\ news_on
                                  \/ k = "conflict" /\ conflict_on
                                  \/ k = "economic" /\ economic_on
                                  \/ k = "government" /\ government_on})
            volume == VolumeCredit(news_on, inp.news.article_count, 50)
                      + VolumeCredit(conflict_on, inp.conflict.event_count, 30)
                      + (IF economic_on THEN 25 * U ELSE 0)
                      + VolumeCredit(government_on, inp.government.reports_analyzed, 20)
        IN probe.result.components.source_count =
              Round2(Min((active_sources * 50 * U) \div 4 + Min(volume, 50 * U), 100 * U))

(* ---- C24 ---- *)

\* the freshness credit of the three other signals
FreshnessWithoutNews(inp) ==
    calculate_freshness_score([article_count |-> 0, days_analyzed |-> 8], inp.conflict,
                              inp.economic, inp.government)

\* C24: a news signal that found no article within its 7-day window (its
\* articles, if any, come from the find without date filter) earns less than
\* the full 30 points of news freshness.
C24_FreshnessNeedsRecentNews ==
    (ScoredProbe /\ probe.inputs.records.news.in_window = 0) =>
        probe.result.components.freshness - FreshnessWithoutNews(probe.inputs) < 30 * U

(* ---- C25 ---- *)

\* C25: a sustained_high Alert is written only when the rows that support it
\* span 48 hours or more: its duration is at least 48 hours and a row of the
\* country with a score of 70 or more is dated 48 hours or more before it.
C25_SustainedHighSpans48Hours ==
    \A a \in alerts_tbl :
        a.alert_type = "sustained_high"
            => /\ a.evidence.duration_hours >= THRESHOLD_sustained_duration
               /\ \E r \in risk_scores :
                     /\ r.country_code = a.country_code
                     /\ r.overall_score >= THRESHOLD_sustained_high * U
                     /\ a.triggered_at - r.date >= THRESHOLD_sustained_duration

(* ---- C26 ---- *)

\* the Alert rows of alert_type for the country of call p written by earlier calls
OlderAlerts(p, alert_type) ==
    {a \in alerts_tbl : /\ a.country_code = run[p].country_code
                         /\ a.alert_type = alert_type
                         /\ a.evidence.risk_score_id # run[p].risk_score_id}

\* the Alert rows call p wrote for alert_type
OwnAlerts(p, alert_type) ==
    {b \in alerts_tbl : /\ b.country_code = run[p].country_code
                         /\ b.alert_type = alert_type
                         /\ b.evidence.risk_score_id = run[p].risk_score_id
                         /\ b.triggered_at = now}

\* C26: in a call that met no exception, a candidate whose earlier same-type
\* alerts of the country were all triggered more than 24 hours before the
\* detection is persisted as a new Alert; one with an earlier alert inside the
\* 24 hours is not.
C26_DedupExpires ==
    \A p \in Procs :
        (run[p].pc = "returned" /\ run[p].faults = 0)
            => \A i \in 1..Len(run[p].alerts) :
                  LET alert_type == run[p].alerts[i].alert_type
                      expired == \A a \in OlderAlerts(p, alert_type) :
                                    now - a.triggered_at > DEDUP_HOURS
                  IN IF expired
                     THEN Cardinality(OwnAlerts(p, alert_type)) = 1
                     ELSE OwnAlerts(p, alert_type) = {}

\* a pattern fired again more than 24 hours after its last alert and a second
\* Alert row was written
C26_Witness ==
    \E p \in Procs :
        /\ run[p].pc = "returned"
        /\ run[p].faults = 0
        /\ \E i \in 1..Len(run[p].alerts) :
              LET alert_type == run[p].alerts[i].alert_type
              IN /\ OlderAlerts(p, alert_type) # {}
                 /\ \A a \in OlderAlerts(p, alert_type) :
                        now - a.triggered_at > DEDUP_HOURS
                 /\ OwnAlerts(p, alert_type) # {}

(* ---- C27 ---- *)

ChangeChecks == {"risk_increase", "sudden_spike", "rapid_escalation"}

\* a change-based check has run against a comparison record whose score is 0
ComparedWithZero ==
    /\ probe.signal \in ChangeChecks
    /\ "result" \in DOMAIN probe
    /\ probe.inputs.previous # None
    /\ probe.inputs.previous.overall_score = 0

\* C27: when the comparison record's overall_score is 0, none of
\* risk_increase, sudden_spike and rapid_escalation yields a candidate,
\* whatever the current score is.
C27_NoChangeAlertFromZero ==
    ComparedWithZero => probe.result = None

\* the rapid_escalation check compared a score of 100 with a record of 0
C27_Witness ==
    /\ ComparedWithZero
    /\ probe.signal = "rapid_escalation"
    /\ probe.inputs.current_score = 100 * U
    /\ probe.result = None

(* ---- C28 ---- *)

\* the four checks of call p have run
ChecksDone(p) == run[p].pc \in {"should_create", "create", "return", "returned"}

\* the candidates of alert_type held by call p
Candidates(p, alert_type) ==
    {run[p].alerts[i] : i \in {j \in 1..Len(run[p].alerts) :
                                  run[p].alerts[j].alert_type = alert_type}}

\* every candidate of alert_type comes with a candidate of implied_type
\* computed against the same previous record
ImpliesCandidate(p, alert_type, implied_type) ==
    \A c \in Candidates(p, alert_type) :
        \E d \in Candidates(p, implied_type) :
            /\ d.evidence.previous_score_id = c.evidence.previous_score_id
            /\ d.previous_score = c.previous_score

\* C28: in a call whose checks ran with the clock unchanged and without
\* raising, a rapid_escalation candidate comes with a sudden_spike and a
\* risk_increase candidate, and a sudden_spike candidate with a risk_increase
\* candidate, each computed against the same previous record.
C28_NestedCandidates ==
    \A p \in Procs :
        (ChecksDone(p) /\ run[p].raised = {})
            => /\ ImpliesCandidate(p, "rapid_escalation", "sudden_spike")
               /\ ImpliesCandidate(p, "rapid_escalation", "risk_increase")
               /\ ImpliesCandidate(p, "sudden_spike", "risk_increase")

\* a call holds the three candidates while an older row of the country lies
\* within 24 hours and outside the 6 hours
C28_Witness ==
    \E p \in Procs :
        /\ ChecksDone(p)
        /\ run[p].raised = {}
        /\ Candidates(p, "rapid_escalation") # {}
        /\ Candidates(p, "sudden_spike") # {}
        /\ Candidates(p, "risk_increase") # {}
        /\ \E r \in risk_scores : /\ r.country_code = run[p].country_code
                                    /\ now - r.date > THRESHOLD_rapid_window
                                    /\ now - r.date <= 24

(* ---- C29 ---- *)

\* C29: when the dedup lookup of a candidate raises, the call goes on to
\* create the alert, also when a same-type alert of the country is less
\* than 24 hours old; and the insert that follows, unless it raises itself,
\* writes the candidate as a new Alert row.
C29_DedupFailsOpen ==
    [][\A p \in Procs :
          /\ (run[p].pc = "should_create" /\ run'[p].faults > run[p].faults)
                => /\ run'[p].pc = "create"
                   /\ run'[p].dedup_error
                   /\ run'[p].i = run[p].i
          /\ (run[p].pc = "create" /\ run[p].dedup_error
               /\ run'[p] # run[p] /\ run'[p].faults = run[p].faults)
                => \E b \in alerts_tbl' \ alerts_tbl :
                      /\ b.country_code = run[p].country_code
                      /\ b.alert_type = run[p].alerts[run[p].i].alert_type
                      /\ b.triggered_at = now
                      /\ b.guard = "fail_open"]_vars

\* serialized calls left two Alert rows of one type for a country less than
\* 24 hours apart, the later one written after a lookup that raised
C29_Witness ==
    \E a, b \in alerts_tbl :
        /\ SameKind(a, b)
        /\ a.id < b.id
        /\ b.triggered_at - a.triggered_at < DEDUP_HOURS
        /\ b.guard = "fail_open"
        /\ ~ a.concurrent
        /\ ~ b.concurrent

(* ---- C30 ---- *)

\* call p has computed its signals and its overall_score
Scored(p) == run[p].pc \notin {"idle", "raised"}

SignalScores(signals) == [k \in SignalNames |-> Round2(signals[k].score)]

RowSignalScores(row) ==
    [news |-> row.news_signal_score, conflict |-> row.conflict_signal_score,
     economic |-> row.economic_signal_score, government |-> row.government_signal_score]

====
